---- MODULE Spec2Model ----
(***************************************************************************)
(* The 8-way RIL-by-selfing cross class RISELF8 of qtl2                    *)
(* (src/src/cross_riself8.cpp): the HMM probability functions init, emit,  *)
(* step, the recombination indicator nrec, the validators check_geno and   *)
(* check_crossinfo, and the closed-form estimator est_rec_frac.            *)
(*                                                                         *)
(* The class is stateless: every method is a function of its arguments.    *)
(* The state of the model is one call of one method: the build flag, the   *)
(* method called, its arguments and its outcome.                           *)
(*                                                                         *)
(* Numbers.  The code computes in IEEE doubles.  The model computes in     *)
(* exact arithmetic:                                                       *)
(*   - a probability (rec_frac, error_prob) is a rational [n, d] in        *)
(*     lowest terms;                                                       *)
(*   - a logarithm is -infinity (log 0) or the vector of exponents of the  *)
(*     primes in its rational argument, so log(a) + log(b) = log(a*b) is   *)
(*     computed and two log values are equal exactly when the reals are;   *)
(*   - the value returned by est_rec_frac is NaN or the quadratic surd     *)
(*     (P - sqrt(D)) / Q, compared with rationals by integer arithmetic.   *)
(* Rounding of doubles is not modelled.                                    *)
(***************************************************************************)
EXTENDS Integers, Sequences, FiniteSets, TLC

VARIABLES NODEBUG,  \* TRUE iff the build defines RQTL2_NODEBUG (validation off)
          op,       \* the method called, "none" before any call
          args,     \* its arguments
          ret       \* its outcome: a value, a thrown error, or a crash

vars == <<NODEBUG, op, args, ret>>

----------------------------------------------------------------------------
(* Bounds of the model *)

\* denominators of the rationals drawn for rec_frac and error_prob
MaxDen == 4
\* rows of the matrix given to check_crossinfo
MaxRows == 2
\* individuals (columns of cross_info) given to est_rec_frac
MaxInd == 2
\* largest total posterior mass of one individual in gamma
MaxMass == 2

(* Program constants *)

\* const int n_geno = 8 in check_geno; the literal 8 of ngen, nalleles
n_geno == 8

\* R's missing integer, INT_MIN
NA_INTEGER == (-2147483647) - 1

----------------------------------------------------------------------------
(* Outcomes of a call *)

Value(v) == [kind |-> "value", val |-> v]
Throw(msg) == [kind |-> "throw", what |-> msg]
\* an out-of-bounds read may also end the process
Crash == [kind |-> "crash"]

----------------------------------------------------------------------------
(* Exact rationals *)

RECURSIVE GCD(_, _)
GCD(a, b) == IF b = 0 THEN a ELSE GCD(b, a % b)

Abs(x) == IF x < 0 THEN -x ELSE x

\* n/d in lowest terms, d > 0
Frac(n, d) ==
    LET g == GCD(Abs(n), Abs(d))
        s == IF d < 0 THEN -1 ELSE 1
    IN [n |-> s * (n \div g), d |-> s * (d \div g)]

RInt(k) == [n |-> k, d |-> 1]
RAdd(x, y) == Frac(x.n * y.d + y.n * x.d, x.d * y.d)
RSub(x, y) == Frac(x.n * y.d - y.n * x.d, x.d * y.d)
RMul(x, y) == Frac(x.n * y.n, x.d * y.d)
RDiv(x, y) == Frac(x.n * y.d, x.d * y.n)
RLe(x, y) == x.n * y.d <= y.n * x.d

\* the rationals p/q of [0, 1] with q <= MaxDen
Fractions == { Frac(p, q) : p \in 0..MaxDen, q \in 1..MaxDen } \cap
             { [n |-> p, d |-> q] : p \in 0..MaxDen, q \in 1..MaxDen }
Probabilities == { x \in Fractions : x.n <= x.d }

----------------------------------------------------------------------------
(* Exact logarithms of non-negative rationals *)

\* 1 + 2r <= 3 for r in [0,1]: every numerator and denominator is <= 3*MaxDen
PrimeMax == 3 * MaxDen
Primes == { p \in 2..PrimeMax : \A k \in 2..(p-1) : p % k # 0 }

RECURSIVE Mult(_, _)
\* the exponent of the prime p in k >= 1
Mult(k, p) == IF k % p = 0 THEN 1 + Mult(k \div p, p) ELSE 0

NegInf == [ninf |-> TRUE, e |-> [p \in Primes |-> 0]]
LogNat(k) == [ninf |-> FALSE, e |-> [p \in Primes |-> Mult(k, p)]]

\* log(x) of a double x >= 0; log(0.0) is -infinity
Log(x) ==
    IF x.n = 0 THEN NegInf
    ELSE [ninf |-> FALSE, e |-> [p \in Primes |-> Mult(x.n, p) - Mult(x.d, p)]]

LAdd(a, b) ==
    IF a.ninf \/ b.ninf THEN NegInf
    ELSE [ninf |-> FALSE, e |-> [p \in Primes |-> a.e[p] + b.e[p]]]

\* a - b for a finite b
LSub(a, b) ==
    IF a.ninf THEN NegInf
    ELSE [ninf |-> FALSE, e |-> [p \in Primes |-> a.e[p] - b.e[p]]]

\* 2.0 * a
LTwice(a) == LAdd(a, a)

LZero == LogNat(1)
LNeg(a) == LSub(LZero, a)

RECURSIVE PowProd(_, _, _)
\* the product of p^(sign*e[p]) over the primes p of S with sign*e[p] > 0
PowProd(S, e, sign) ==
    IF S = {} THEN 1
    ELSE LET p == CHOOSE q \in S : TRUE
             k == sign * e[p]
         IN (IF k > 0 THEN p ^ k ELSE 1) * PowProd(S \ {p}, e, sign)

\* exp(a): the probability a log value stands for
Exp(a) ==
    IF a.ninf THEN RInt(0)
    ELSE Frac(PowProd(Primes, a.e, 1), PowProd(Primes, a.e, -1))

----------------------------------------------------------------------------
(* check_geno *)

check_geno_lt(gen, is_observed_value) ==
    IF is_observed_value
    THEN gen \in {0, 1, 2, 3, 5, 4}
    ELSE gen >= 1 /\ gen < n_geno

\* enum gen_riself8 {A=1, H=2, B=3, notA=5, notB=4}
check_geno(gen, is_observed_value) ==
    IF is_observed_value
    THEN gen = 0 \/ gen = 1 \/ gen = 2 \/ gen = 3 \/ gen = 5 \/ gen = 4
    ELSE gen >= 1 /\ gen <= n_geno

----------------------------------------------------------------------------
(* invert_founder_index (cross_do_util): result[cross_info[i]-1] = i.      *)
(* A C++ vector is a TLA+ sequence: C index k is TLA+ index k+1; the       *)
(* values stored (0-based positions) are kept as in the code.              *)

RECURSIVE InvertLoop(_, _, _)
InvertLoop(cross_info, i, result) ==
    IF i >= Len(cross_info) THEN result
    ELSE InvertLoop(cross_info, i + 1,
                    [result EXCEPT ![(cross_info[i + 1] - 1) + 1] = i])

invert_founder_index(cross_info) ==
    InvertLoop(cross_info, 0, [k \in 1..Len(cross_info) |-> 0])

----------------------------------------------------------------------------
(* init *)

init(true_gen, nodebug) ==
    IF ~nodebug /\ ~check_geno(true_gen, FALSE)
    THEN Throw("genotype value not allowed")
    ELSE Value(LNeg(LogNat(8)))

----------------------------------------------------------------------------
(* emit *)

\* what an out-of-bounds read of founder_geno may yield
GarbageInts == {NA_INTEGER, 0, 1, 2, 3}

emit_from_swapped(obs_gen, f, error_prob) ==
    IF f # 1 /\ f # 3 THEN Value(LZero)
    ELSE IF f = obs_gen THEN Value(Log(error_prob))
    ELSE Value(Log(RSub(RInt(1), error_prob)))

\* lines 52-59, with f the founder allele read
emit_from(obs_gen, f, error_prob) ==
    IF f # 1 /\ f # 3 THEN Value(LZero)
    ELSE IF f = obs_gen THEN Value(Log(RSub(RInt(1), error_prob)))
    ELSE Value(Log(error_prob))

\* the set of outcomes of emit
emit(obs_gen, true_gen, error_prob, founder_geno, nodebug) ==
    IF ~nodebug /\ ~check_geno(true_gen, FALSE)
    THEN {Throw("genotype value not allowed")}
    ELSE IF obs_gen = 0 THEN {Value(LZero)}
    ELSE IF true_gen - 1 >= 0 /\ true_gen - 1 < Len(founder_geno)
    THEN {emit_from(obs_gen, founder_geno[(true_gen - 1) + 1], error_prob)}
    ELSE {emit_from(obs_gen, f, error_prob) : f \in GarbageInts} \cup {Crash}

----------------------------------------------------------------------------
(* step *)

StepIdenticalNotSquared(rec_frac) ==
    LSub(Log(RSub(RInt(1), rec_frac)),
         Log(RAdd(RInt(1), RMul(RInt(2), rec_frac))))

\* 2.0*log(1.0-rec_frac) - log(1.0 + 2.0 * rec_frac)
StepIdentical(rec_frac) ==
    LSub(LTwice(Log(RSub(RInt(1), rec_frac))),
         Log(RAdd(RInt(1), RMul(RInt(2), rec_frac))))

\* log(rec_frac) + log(1.0 - rec_frac) - log(1.0 + 2.0 * rec_frac)
StepSibling(rec_frac) ==
    LSub(LAdd(Log(rec_frac), Log(RSub(RInt(1), rec_frac))),
         Log(RAdd(RInt(1), RMul(RInt(2), rec_frac))))

StepNonSiblingNoHalf(rec_frac) ==
    LSub(Log(rec_frac), Log(RAdd(RInt(1), RMul(RInt(2), rec_frac))))

\* log(rec_frac) - log(2.0) - log(1.0 + 2.0 * rec_frac)
StepNonSibling(rec_frac) ==
    LSub(LSub(Log(rec_frac), LogNat(2)),
         Log(RAdd(RInt(1), RMul(RInt(2), rec_frac))))

SiblingsNoInvert(founder_index, cross_info, gl, gr) ==
    cross_info[gl + 1] \div 2 = cross_info[gr + 1] \div 2

\* founder_index[gl] / 2 == founder_index[gr] / 2, for C indices gl, gr
Siblings(founder_index, cross_info, gl, gr) ==
    founder_index[gl + 1] \div 2 = founder_index[gr + 1] \div 2

\* lines 82-93: the return statements a call may reach
StepBranches(gen_left, gen_right, cross_info) ==
    IF gen_left = gen_right THEN {"identical"}
    ELSE LET founder_index == invert_founder_index(cross_info)
             inside(g) == g - 1 >= 0 /\ g - 1 < Len(founder_index)
         IN IF inside(gen_left) /\ inside(gen_right)
            THEN IF Siblings(founder_index, cross_info, gen_left - 1, gen_right - 1)
                 THEN {"sibling"}
                 ELSE {"nonsibling"}
            \* founder_index read out of bounds: either branch, or a crash
            ELSE {"sibling", "nonsibling", "crash"}

StepReturn(branch, rec_frac) ==
    CASE branch = "identical" -> Value(StepIdentical(rec_frac))
      [] branch = "sibling" -> Value(StepSibling(rec_frac))
      [] branch = "nonsibling" -> Value(StepNonSibling(rec_frac))
      [] branch = "crash" -> Crash

\* the set of outcomes of step
step(gen_left, gen_right, rec_frac, cross_info, nodebug) ==
    IF ~nodebug /\ (~check_geno(gen_left, FALSE) \/ ~check_geno(gen_right, FALSE))
    THEN {Throw("genotype value not allowed")}
    ELSE {StepReturn(b, rec_frac) : b \in StepBranches(gen_left, gen_right, cross_info)}

----------------------------------------------------------------------------
(* nrec *)

nrec(gen_left, gen_right, nodebug) ==
    IF ~nodebug /\ (~check_geno(gen_left, FALSE) \/ ~check_geno(gen_right, FALSE))
    THEN Throw("genotype value not allowed")
    ELSE IF gen_left = gen_right THEN Value(0) ELSE Value(1)

----------------------------------------------------------------------------
(* Inputs of the HMM functions *)

\* true genotypes offered: the legal 1..8 and one value on each side
GenInputs == 0..(n_geno + 1)

\* observed genotypes offered: the legal 0..5 and one value on each side
ObsInputs == -1..6

Injective(f) == \A i, j \in DOMAIN f : f[i] = f[j] => i = j

\* founder orders: every order of founders 1..4 in the first two pairs,
\* and two rotations of the whole order
CrossInfoPerms ==
    { p \o <<5, 6, 7, 8>> : p \in { q \in [1..4 -> 1..4] : Injective(q) } }
    \cup { <<8, 1, 2, 3, 4, 5, 6, 7>>, <<2, 3, 4, 5, 6, 7, 8, 1>> }

\* founder panels at one marker: a uniform panel with at most one entry changed
FounderPanels ==
    { [i \in 1..n_geno |-> IF i = k THEN a ELSE b] :
        k \in 1..n_geno, a \in {0, 1, 2, 3}, b \in {1, 3} }

----------------------------------------------------------------------------
(* check_crossinfo.  The matrix is [n_col, rows]: rows is the sequence of  *)
(* its rows, each a sequence of n_col integers.                            *)

RECURSIVE ScanCells(_, _, _, _)
\* lines 134-137: the first loop over the columns of one row
ScanCells(row, n_col, j, acc) ==
    IF j >= n_col THEN acc
    ELSE ScanCells(row, n_col, j + 1,
            IF row[j + 1] = NA_INTEGER
            THEN [acc EXCEPT !.n_missing = @ + 1]
            ELSE IF row[j + 1] < 1 \/ row[j + 1] > n_col
            THEN [acc EXCEPT !.n_invalid = @ + 1]
            ELSE acc)

RECURSIVE CountValues(_, _, _, _)
\* lines 141-144: count values 1..ncol, ignoring the ones out of range
CountValues(row, n_col, j, counts) ==
    IF j >= n_col THEN counts
    ELSE CountValues(row, n_col, j + 1,
            IF row[j + 1] >= 1 /\ row[j + 1] <= n_col
            THEN [counts EXCEPT ![(row[j + 1] - 1) + 1] = @ + 1]
            ELSE counts)

RECURSIVE AddDeviations(_, _, _, _)
\* lines 145-147: n_invalid += abs(counts[j] - 1)
AddDeviations(counts, n_col, j, acc) ==
    IF j >= n_col THEN acc
    ELSE AddDeviations(counts, n_col, j + 1,
            IF counts[j + 1] # 1
            THEN [acc EXCEPT !.n_invalid = @ + Abs(counts[j + 1] - 1)]
            ELSE acc)

\* lines 133-148, the body of the loop over rows
ScanRow(row, n_col, acc) ==
    AddDeviations(CountValues(row, n_col, 0, [k \in 1..n_col |-> 0]), n_col, 0,
                  ScanCells(row, n_col, 0, acc))

RECURSIVE ScanRowsFirstOnly(_, _, _, _)
ScanRowsFirstOnly(rows, n_col, i, acc) ==
    IF i >= Len(rows) \/ i >= 1 THEN acc
    ELSE ScanRowsFirstOnly(rows, n_col, i + 1, ScanRow(rows[i + 1], n_col, acc))

RECURSIVE ScanRows(_, _, _, _)
ScanRows(rows, n_col, i, acc) ==
    IF i >= Len(rows) THEN acc
    ELSE ScanRows(rows, n_col, i + 1, ScanRow(rows[i + 1], n_col, acc))

MsgColumns == "cross_info should have 8 columns, indicating the order of the cross"
MsgMissing == "cross_info has missing values (it shouldn't)"
MsgInvalid == "cross_info has invalid values; each row should be permutation of {1, 2, ..., 8}"

\* the outcome: the boolean returned, the messages sent to r_message, and
\* the two counters as they stand when the function returns
check_crossinfo(cross_info) ==
    IF cross_info.n_col # 8
    THEN [kind |-> "value", val |-> FALSE, messages |-> <<MsgColumns>>,
          scanned |-> FALSE, n_missing |-> 0, n_invalid |-> 0]
    ELSE LET acc == ScanRows(cross_info.rows, cross_info.n_col, 0,
                             [n_missing |-> 0, n_invalid |-> 0])
         IN [kind |-> "value",
             val |-> ~(acc.n_missing > 0) /\ ~(acc.n_invalid > 0),
             messages |-> (IF acc.n_missing > 0 THEN <<MsgMissing>> ELSE <<>>)
                          \o (IF acc.n_invalid > 0 THEN <<MsgInvalid>> ELSE <<>>),
             scanned |-> TRUE,
             n_missing |-> acc.n_missing, n_invalid |-> acc.n_invalid]

\* column counts offered: 8 and one value on each side
NColInputs == (n_geno - 1)..(n_geno + 1)

\* cell values offered: missing, below range, in range, above range
CellInputs == {NA_INTEGER, 0, 1, 2, n_geno, n_geno + 1}

\* rows of n_col cells: the orders 1..n_col and n_col..1 with at most one
\* cell, the first, the second or the last, replaced
RowInputs(n_col) ==
    { [b EXCEPT ![k] = a] :
        b \in { [j \in 1..n_col |-> j], [j \in 1..n_col |-> n_col + 1 - j] },
        k \in {1, 2, n_col}, a \in CellInputs }

CallCheckCrossinfo ==
    /\ op = "none"
    /\ \E n_col \in NColInputs, n_row \in 0..MaxRows :
       \E rows \in [1..n_row -> RowInputs(n_col)] :
        /\ op' = "check_crossinfo"
        /\ args' = [cross_info |-> [n_col |-> n_col, rows |-> rows]]
        /\ ret' = check_crossinfo([n_col |-> n_col, rows |-> rows])
        /\ UNCHANGED NODEBUG

----------------------------------------------------------------------------
(* est_rec_frac.  cross_info is [n_row, cols]: cols is the sequence of its *)
(* columns, one per individual, each the founder order of that individual. *)
(* gamma is the flat vector, C index k at TLA+ index k+1.  Posterior       *)
(* masses are drawn as small integers: the estimate depends on u : v : w   *)
(* only.  The sums u, v, w of the three loops are written as what each     *)
(* pass adds, in the order of the code.                                    *)

\* the double returned: cls is "nan", "pinf", "ninf" or "fin", and a "fin"
\* value is (P - sqrt(D)) / Q
Surd(P, D, Q) == [cls |-> "fin", P |-> P, D |-> D, Q |-> Q]
SurdZero == Surd(0, 0, 1)
SurdNaN == [cls |-> "nan", P |-> 0, D |-> 0, Q |-> 0]
SurdInf(sign) == [cls |-> IF sign > 0 THEN "pinf" ELSE "ninf", P |-> 0, D |-> 0, Q |-> 0]

Sign(x) == IF x > 0 THEN 1 ELSE IF x < 0 THEN -1 ELSE 0

\* the sign of P - sqrt(D), D >= 0
SignNum(P, D) == IF P <= 0 THEN (IF P = 0 /\ D = 0 THEN 0 ELSE -1) ELSE Sign(P * P - D)

SurdDivGuarded(P, D, Q) ==
    IF Q # 0 THEN Surd(P, D, Q) ELSE SurdZero

\* (P - sqrt(D)) / Q as IEEE division gives it
SurdDiv(P, D, Q) ==
    IF Q # 0 THEN Surd(P, D, Q)
    ELSE IF SignNum(P, D) = 0 THEN SurdNaN
    ELSE SurdInf(SignNum(P, D))

\* x < 0.0; false of NaN
SurdNegative(x) ==
    \/ x.cls = "ninf"
    \/ x.cls = "fin" /\ SignNum(x.P, x.D) * Sign(x.Q) < 0

\* the three sums u, v, w
Sums(u, v, w) == [u |-> u, v |-> v, w |-> w]
SumsAdd(a, b) == [u |-> a.u + b.u, v |-> a.v + b.v, w |-> a.w + b.w]

\* lines 258-261, one pass of the loop over gr: what it adds to v or to w
EstPairUpperOnly(gamma, founder_index, n_gen, offset, gl, gr) ==
    IF founder_index[gl + 1] \div 2 = founder_index[gr + 1] \div 2
    THEN Sums(0, gamma[(offset + gl * n_gen + gr) + 1], 0)
    ELSE Sums(0, 0, gamma[(offset + gl * n_gen + gr) + 1])

EstPair(gamma, founder_index, n_gen, offset, gl, gr) ==
    IF founder_index[gl + 1] \div 2 = founder_index[gr + 1] \div 2
    THEN Sums(0, gamma[(offset + gl * n_gen + gr) + 1]
                 + gamma[(offset + gr * n_gen + gl) + 1], 0)
    ELSE Sums(0, 0, gamma[(offset + gl * n_gen + gr) + 1]
                    + gamma[(offset + gr * n_gen + gl) + 1])

RECURSIVE EstInner(_, _, _, _, _, _)
\* lines 257-262: what the loop over gr, from gr on, adds
EstInner(gamma, founder_index, n_gen, offset, gl, gr) ==
    IF gr >= n_gen THEN Sums(0, 0, 0)
    ELSE SumsAdd(EstPair(gamma, founder_index, n_gen, offset, gl, gr),
                 EstInner(gamma, founder_index, n_gen, offset, gl, gr + 1))

RECURSIVE EstOuter(_, _, _, _, _)
\* lines 255-263: what the loop over gl, from gl on, adds
EstOuter(gamma, founder_index, n_gen, offset, gl) ==
    IF gl >= n_gen THEN Sums(0, 0, 0)
    ELSE SumsAdd(SumsAdd(Sums(gamma[(offset + gl * n_gen + gl) + 1], 0, 0),
                         EstInner(gamma, founder_index, n_gen, offset, gl, gl + 1)),
                 EstOuter(gamma, founder_index, n_gen, offset, gl + 1))

RECURSIVE EstInd(_, _, _, _, _)
\* lines 252-264: what the loop over individuals, from ind on, adds
EstInd(gamma, cross_info, n_gen, ind, offset) ==
    IF ind >= Len(cross_info.cols) THEN Sums(0, 0, 0)
    ELSE SumsAdd(EstOuter(gamma, invert_founder_index(cross_info.cols[ind + 1]),
                          n_gen, offset, 0),
                 EstInd(gamma, cross_info, n_gen, ind + 1, offset + n_gen * n_gen))

EstRadicandSlip(n, u, v, w) ==
    4*n*n + 4*n*(2*u - 2*v - 3*w) + 9*w*w + 12*w*(u + 2*v)
    + 16*v*v + 16*u*v + 2*u*u

\* lines 268-269: the argument of sqrt
EstRadicand(n, u, v, w) ==
    4*n*n + 4*n*(2*u - 2*v - 3*w) + 9*w*w + 12*w*(u + 2*v)
    + 16*v*v + 16*u*v + 4*u*u

est_rec_frac(gamma, cross_info, n_gen, nodebug) ==
    IF ~nodebug /\ cross_info.n_row # 8
    THEN Throw("cross_info should contain 8 founders")
    ELSE LET s == EstInd(gamma, cross_info, n_gen, 0, 0)
             u == s.u
             v == s.v
             w == s.w
             n == u + v + w
             result == SurdDiv(2*n + 2*u - w, EstRadicand(n, u, v, w),
                               4 * (n - w - 2*v - 2*u))
         IN Value(IF SurdNegative(result) THEN SurdZero ELSE result)

\* founder orders offered per individual
EstPerms == { <<1, 2, 3, 4, 5, 6, 7, 8>>, <<8, 1, 2, 3, 4, 5, 6, 7>> }

\* the cells (gl, gr), as C indices, that may carry mass: a diagonal cell,
\* one above and one below the diagonal
ProbeCells == << <<0, 0>>, <<0, 1>>, <<7, 0>> >>

\* the TLA+ index in one individual's block of probe cell c
ProbeIndex(c) == (ProbeCells[c][1] * n_geno + ProbeCells[c][2]) + 1

\* the 64 cells of one individual, masses m[1..3] on the probe cells
GammaBlock(m) ==
    [[k \in 1..(n_geno * n_geno) |-> 0] EXCEPT
        ![ProbeIndex(1)] = m[1], ![ProbeIndex(2)] = m[2], ![ProbeIndex(3)] = m[3]]

\* the masses one individual may carry on the probe cells
BlockMasses ==
    { m \in [1..Len(ProbeCells) -> 0..MaxMass] : m[1] + m[2] + m[3] <= MaxMass }

RECURSIVE Flatten(_)
Flatten(blocks) ==
    IF blocks = <<>> THEN <<>> ELSE Head(blocks) \o Flatten(Tail(blocks))

CallEstRecFrac ==
    /\ op = "none"
    /\ \E n_ind \in 0..MaxInd :
       \E cols \in [1..n_ind -> EstPerms], masses \in [1..n_ind -> BlockMasses] :
       \E gamma \in {Flatten([i \in 1..n_ind |-> GammaBlock(masses[i])])},
          cross_info \in {[n_row |-> n_geno, cols |-> cols]} :
        /\ op' = "est_rec_frac"
        /\ args' = [gamma |-> gamma, cross_info |-> cross_info, n_gen |-> n_geno]
        /\ ret' = est_rec_frac(gamma, cross_info, n_geno, NODEBUG)
        /\ UNCHANGED NODEBUG

----------------------------------------------------------------------------
(* One action per method.  The methods keep no state, so a behaviour is    *)
(* one call: an action is enabled while no call has been made.             *)

CallInit ==
    /\ op = "none"
    /\ \E true_gen \in GenInputs :
        /\ op' = "init"
        /\ args' = [true_gen |-> true_gen]
        /\ ret' = init(true_gen, NODEBUG)
        /\ UNCHANGED NODEBUG

CallEmit ==
    /\ op = "none"
    /\ \E obs_gen \in ObsInputs, true_gen \in GenInputs,
       error_prob \in Probabilities, founder_geno \in FounderPanels :
        /\ op' = "emit"
        /\ args' = [obs_gen |-> obs_gen, true_gen |-> true_gen,
                    error_prob |-> error_prob, founder_geno |-> founder_geno]
        /\ ret' \in emit(obs_gen, true_gen, error_prob, founder_geno, NODEBUG)
        /\ UNCHANGED NODEBUG

CallStep ==
    /\ op = "none"
    /\ \E gen_left \in GenInputs, gen_right \in GenInputs,
       rec_frac \in Probabilities, cross_info \in CrossInfoPerms :
        /\ op' = "step"
        /\ args' = [gen_left |-> gen_left, gen_right |-> gen_right,
                    rec_frac |-> rec_frac, cross_info |-> cross_info]
        /\ ret' \in step(gen_left, gen_right, rec_frac, cross_info, NODEBUG)
        /\ UNCHANGED NODEBUG

CallNrec ==
    /\ op = "none"
    /\ \E gen_left \in GenInputs, gen_right \in GenInputs :
        /\ op' = "nrec"
        /\ args' = [gen_left |-> gen_left, gen_right |-> gen_right]
        /\ ret' = nrec(gen_left, gen_right, NODEBUG)
        /\ UNCHANGED NODEBUG

Init ==
    /\ NODEBUG \in BOOLEAN
    /\ op = "none"
    /\ args = <<>>
    /\ ret = [kind |-> "none"]

Next ==
    \/ CallInit
    \/ CallEmit
    \/ CallStep
    \/ CallNrec
    \/ CallCheckCrossinfo
    \/ CallEstRecFrac

Spec == Init /\ [][Next]_vars

\* the HMM functions alone, the validator alone, the estimator alone
NextHMM == CallInit \/ CallEmit \/ CallStep \/ CallNrec
SpecHMM == Init /\ [][NextHMM]_vars
SpecCrossinfo == Init /\ [][CallCheckCrossinfo]_vars
SpecEst == Init /\ [][CallEstRecFrac]_vars

----------------------------------------------------------------------------
(* Vocabulary of the properties *)

GenotypeError == Throw("genotype value not allowed")

ValidGen(g) == g \in 1..8
IsPermutation(row) == Len(row) = 8 /\ { row[j] : j \in 1..Len(row) } = 1..8

\* the 0-based position of founder g in the founder order
PosOf(cross_info, g) == CHOOSE i \in 0..7 : cross_info[i + 1] = g

\* the two founders stand in the same pair of positions {0,1}, {2,3}, {4,5}, {6,7}
SamePair(cross_info, a, b) == PosOf(cross_info, a) \div 2 = PosOf(cross_info, b) \div 2

ROne == RInt(1)
RHalf == Frac(1, 2)
OnePlus2r(r) == RAdd(ROne, RAdd(r, r))
OneMinus(r) == RSub(ROne, r)

\* the log of a ratio of two rationals, the divisor positive
LogRatio(x, y) == Log(RDiv(x, y))

----------------------------------------------------------------------------
\* C2: for a permutation cross_info and gen_left, gen_right in 1..8, step
\* returns log((1-r)^2 / (1+2r)) when the genotypes are identical,
\* log(r(1-r) / (1+2r)) when they differ and their founders' 0-based
\* positions in cross_info have the same quotient by 2, and
\* log((r/2) / (1+2r)) in every other case.
C2_StepThreeCases ==
    (op = "step" /\ ValidGen(args.gen_left) /\ ValidGen(args.gen_right)
        /\ IsPermutation(args.cross_info))
    => LET r == args.rec_frac
           gl == args.gen_left
           gr == args.gen_right
       IN ret = Value(
            IF gl = gr
            THEN LogRatio(RMul(OneMinus(r), OneMinus(r)), OnePlus2r(r))
            ELSE IF SamePair(args.cross_info, gl, gr)
            THEN LogRatio(RMul(r, OneMinus(r)), OnePlus2r(r))
            ELSE LogRatio(RMul(r, RHalf), OnePlus2r(r)))

\* founders 8 and 1 open the order <<8,1,2,...>>: a sibling pair, r = 1/4,
\* probability (1/4)(3/4)/(3/2) = 1/8
C2_Witness ==
    /\ op = "step"
    /\ args.cross_info = <<8, 1, 2, 3, 4, 5, 6, 7>>
    /\ args.gen_left = 8 /\ args.gen_right = 1
    /\ args.rec_frac = Frac(1, 4)
    /\ ret.kind = "value"
    /\ Exp(ret.val) = Frac(1, 8)

----------------------------------------------------------------------------
\* C4: for a true genotype g in 1..8, emit returns 0 when obs_gen is 0,
\* else 0 when founder_geno[g-1] is neither 1 nor 3, else log(1-e) when
\* founder_geno[g-1] equals obs_gen, else log(e).
C4_EmitCases ==
    (op = "emit" /\ ValidGen(args.true_gen))
    => LET f == args.founder_geno[args.true_gen]
       IN ret = Value(
            IF args.obs_gen = 0 THEN LogNat(1)
            ELSE IF f \notin {1, 3} THEN LogNat(1)
            ELSE IF f = args.obs_gen THEN Log(OneMinus(args.error_prob))
            ELSE Log(args.error_prob))

\* a panel of all 1s, obs_gen = 1, true genotype 2, e = 1/4: log(3/4)
C4_Witness ==
    /\ op = "emit"
    /\ args.founder_geno = [i \in 1..8 |-> 1]
    /\ args.obs_gen = 1 /\ args.true_gen = 2
    /\ args.error_prob = Frac(1, 4)
    /\ ret.kind = "value"
    /\ Exp(ret.val) = Frac(3, 4)

----------------------------------------------------------------------------
\* the true-genotype arguments of a call of init, emit, step or nrec
TrueGenArgs ==
    IF op \in {"init", "emit"} THEN {args.true_gen}
    ELSE {args.gen_left, args.gen_right}

\* C5: with validation enabled, init, emit, step and nrec signal
\* "genotype value not allowed" and return nothing exactly when a
\* true-genotype argument is outside 1..8.
C5_InvalidGenotypeThrows ==
    (~NODEBUG /\ op \in {"init", "emit", "step", "nrec"})
    => IF \E g \in TrueGenArgs : ~ValidGen(g)
       THEN ret = GenotypeError
       ELSE ret.kind = "value"

\* emit of a missing observation with true genotype 0: the error, not 0.0
C5_Witness ==
    /\ ~NODEBUG
    /\ op = "emit"
    /\ args.obs_gen = 0 /\ args.true_gen = 0
    /\ ret = GenotypeError

----------------------------------------------------------------------------
\* C7 as stated: at rec_frac = 1/2 every branch of step returns -log(4).
C7_HalfIsMinusLog4 ==
    (op = "step" /\ ValidGen(args.gen_left) /\ ValidGen(args.gen_right)
        /\ args.rec_frac = RHalf)
    => ret = Value(LNeg(LogNat(4)))

\* C7 amended: at rec_frac = 1/2 the three branches of step return the same
\* value, and it is -log(8): a transition probability of 1/8.
C7_HalfIsMinusLog8 ==
    (op = "step" /\ ValidGen(args.gen_left) /\ ValidGen(args.gen_right)
        /\ args.rec_frac = RHalf)
    => ret = Value(LNeg(LogNat(8)))

\* a non-sibling pair at rec_frac = 1/2
C7_Witness ==
    /\ op = "step"
    /\ args.cross_info = <<1, 2, 3, 4, 5, 6, 7, 8>>
    /\ args.gen_left = 1 /\ args.gen_right = 8
    /\ args.rec_frac = RHalf
    /\ ret.kind = "value"
    /\ Exp(ret.val) = Frac(1, 8)

----------------------------------------------------------------------------
\* C9 as stated: with validation enabled, emit signals the invalid-genotype
\* error for an obs_gen outside {0,1,2,3,4,5}.
C9_EmitValidatesObserved ==
    (~NODEBUG /\ op = "emit" /\ args.obs_gen \notin 0..5)
    => ret = GenotypeError

----------------------------------------------------------------------------
\* the branch step takes, and the probability it returns, for one gen_right
BranchFor(gen_right) ==
    CHOOSE b \in StepBranches(args.gen_left, gen_right, args.cross_info) : TRUE

ProbFor(gen_right) ==
    Exp((CHOOSE o \in step(args.gen_left, gen_right, args.rec_frac,
                           args.cross_info, NODEBUG) : TRUE).val)

RECURSIVE RSum(_, _)
RSum(f, S) ==
    IF S = {} THEN RInt(0)
    ELSE LET x == CHOOSE y \in S : TRUE IN RAdd(f[x], RSum(f, S \ {x}))

\* C10: for gen_left in 1..8 and r in [0, 1/2], of the 8 values of gen_right
\* one takes the identical branch, one the sibling branch and six the
\* non-sibling branch, and the probabilities exp(step) sum to 1.
C10_StepNormalised ==
    (op = "step" /\ ValidGen(args.gen_left) /\ IsPermutation(args.cross_info)
        /\ RLe(args.rec_frac, RHalf))
    => /\ Cardinality({ g \in 1..8 : BranchFor(g) = "identical" }) = 1
       /\ Cardinality({ g \in 1..8 : BranchFor(g) = "sibling" }) = 1
       /\ Cardinality({ g \in 1..8 : BranchFor(g) = "nonsibling" }) = 6
       /\ RSum([g \in 1..8 |-> ProbFor(g)], 1..8) = ROne

\* a row of the kernel at r = 1/4 under a rotated founder order:
\* 3/8 + 1/8 + 6 * (1/12) = 1
C10_Witness ==
    /\ op = "step"
    /\ args.cross_info = <<2, 3, 4, 5, 6, 7, 8, 1>>
    /\ args.gen_left = 1 /\ args.gen_right = 8
    /\ args.rec_frac = Frac(1, 4)
    /\ ret.kind = "value"
    /\ Exp(ret.val) = Frac(1, 8)
    /\ ProbFor(1) = Frac(3, 8)
    /\ ProbFor(5) = Frac(1, 12)

----------------------------------------------------------------------------
\* a row of 8 cells is a permutation of 1..8: every value 1..8 is in it
RowIsPermutation(row) == \A x \in 1..8 : \E j \in 1..Len(row) : row[j] = x
RowHasDuplicate(row) ==
    \E j, k \in 1..Len(row) : j # k /\ row[j] = row[k] /\ row[j] # NA_INTEGER
RowHasMissing(row) == \E j \in 1..Len(row) : row[j] = NA_INTEGER

\* C6: check_crossinfo returns true exactly when the matrix has 8 columns
\* and every row is a permutation of 1..8; in an 8-column matrix a row with
\* a duplicate, wherever it stands, leaves the invalid count > 0 and a row
\* with a missing value leaves the missing count > 0.
C6_CheckCrossinfo ==
    op = "check_crossinfo"
    => LET m == args.cross_info
           Rows == { m.rows[i] : i \in 1..Len(m.rows) }
       IN /\ ret.val = (m.n_col = 8 /\ \A row \in Rows : RowIsPermutation(row))
          /\ m.n_col = 8 =>
                /\ (\E row \in Rows : RowHasDuplicate(row)) => ret.n_invalid > 0
                /\ (\E row \in Rows : RowHasMissing(row)) => ret.n_missing > 0

\* a valid first row, then the row [1,1,3,4,5,6,7,8]: false, two invalid
C6_Witness ==
    /\ op = "check_crossinfo"
    /\ args.cross_info.n_col = 8
    /\ args.cross_info.rows = << <<1, 2, 3, 4, 5, 6, 7, 8>>, <<1, 1, 3, 4, 5, 6, 7, 8>> >>
    /\ ret.val = FALSE
    /\ ret.n_invalid = 2
    /\ ret.n_missing = 0

----------------------------------------------------------------------------
(* Comparison of the double returned by est_rec_frac with a rational a/b,  *)
(* b > 0, for s = sqrt(D):  b*s <= t  and  b*s >= t.                       *)

SqrtLe(t, b, D) == t >= 0 /\ b * b * D <= t * t
SqrtGe(t, b, D) == t <= 0 \/ t * t <= b * b * D

\* x <= q and x >= q; false of NaN
SurdLe(x, q) ==
    \/ x.cls = "ninf"
    \/ /\ x.cls = "fin"
       /\ LET t == q.d * x.P - q.n * x.Q
          IN IF x.Q > 0 THEN SqrtGe(t, q.d, x.D) ELSE SqrtLe(t, q.d, x.D)

SurdGe(x, q) ==
    \/ x.cls = "pinf"
    \/ /\ x.cls = "fin"
       /\ LET t == q.d * x.P - q.n * x.Q
          IN IF x.Q > 0 THEN SqrtLe(t, q.d, x.D) ELSE SqrtGe(t, q.d, x.D)

\* a + b*sqrt(D) = 0
SurdIsZero(a, b, D) == a * a = b * b * D /\ a * b <= 0

\* c2*x^2 + c1*x + c0 = 0 for the finite x = (P - sqrt(D))/Q
SurdIsRoot(x, c2, c1, c0) ==
    /\ x.cls = "fin"
    /\ SurdIsZero(c2 * (x.P * x.P + x.D) + c1 * x.P * x.Q + c0 * x.Q * x.Q,
                  -(2 * c2 * x.P) - c1 * x.Q, x.D)

\* the masses of gamma by class, from the arguments of the call: cell k of
\* gamma belongs to individual k \div 64, left genotype (k % 64) \div 8 + 1
\* and right genotype k % 8 + 1
GammaCells == { k \in 0..(Len(args.gamma) - 1) : args.gamma[k + 1] # 0 }
CellOrder(k) == args.cross_info.cols[(k \div 64) + 1]
CellLeft(k) == ((k % 64) \div 8) + 1
CellRight(k) == (k % 8) + 1
CellClass(k) ==
    IF CellLeft(k) = CellRight(k) THEN "identical"
    ELSE IF SamePair(CellOrder(k), CellLeft(k), CellRight(k)) THEN "sibling"
    ELSE "nonsibling"

RECURSIVE MassOn(_)
MassOn(S) ==
    IF S = {} THEN 0
    ELSE LET k == CHOOSE c \in S : TRUE IN args.gamma[k + 1] + MassOn(S \ {k})

MassU == MassOn({ k \in GammaCells : CellClass(k) = "identical" })
MassV == MassOn({ k \in GammaCells : CellClass(k) = "sibling" })
MassW == MassOn({ k \in GammaCells : CellClass(k) = "nonsibling" })

EstPre ==
    /\ op = "est_rec_frac"
    /\ \A i \in 1..Len(args.cross_info.cols) : IsPermutation(args.cross_info.cols[i])
    /\ \A k \in 1..Len(args.gamma) : args.gamma[k] >= 0

----------------------------------------------------------------------------
\* C1 as stated: when every founder order is a permutation of 1..8 and
\* gamma is non-negative with positive total, the value returned by
\* est_rec_frac lies in [0, 1/2].
C1_RecFracInRange ==
    (EstPre /\ MassU + MassV + MassW > 0)
    => /\ ret.kind = "value"
       /\ SurdGe(ret.val, RInt(0))
       /\ SurdLe(ret.val, RHalf)

----------------------------------------------------------------------------
\* the derivative at q, 0 < q < 1, of the log-likelihood of counts u, v, w
\* in cells of probability (1-r)^2/(1+2r), r(1-r)/(1+2r), 3r/(1+2r), which is
\* (2u+v) log(1-r) + (v+w) log(r) - (u+v+w) log(1+2r) + w log(3):
\*   (v+w)/q - (2u+v)/(1-q) - 2(u+v+w)/(1+2q)
Score(u, v, w, q) ==
    RSub(RSub(RDiv(RInt(v + w), q), RDiv(RInt(2*u + v), OneMinus(q))),
         RDiv(RInt(2 * (u + v + w)), OnePlus2r(q)))

InteriorPoints == { q \in Probabilities : q.n > 0 /\ q.n < q.d }

\* C3: with u, v, w the masses of gamma on identical, sibling and
\* non-sibling pairs (siblings by each individual's own founder order) and
\* n = u+v+w, whenever u+v > 0 the value returned is
\* (2n+2u-w-A) / (4(n-w-2v-2u)), it is not negative, it is a root of
\* 2(u+v)r^2 + (4u+2v+w)r - (v+w) = 0, and it maximises the likelihood: the
\* likelihood increases up to it and decreases after it.
C3_RecFracIsMle ==
    (EstPre /\ MassU + MassV > 0)
    => LET u == MassU
           v == MassV
           w == MassW
           n == u + v + w
           A2 == 4*n*n + 4*n*(2*u - 2*v - 3*w) + 9*w*w + 12*w*(u + 2*v)
                 + 16*v*v + 16*u*v + 4*u*u
       IN /\ ret.kind = "value"
          /\ ret.val = Surd(2*n + 2*u - w, A2, 4 * (n - w - 2*v - 2*u))
          /\ SurdGe(ret.val, RInt(0))
          /\ SurdIsRoot(ret.val, 2 * (u + v), 4*u + 2*v + w, -(v + w))
          /\ \A q \in InteriorPoints :
                /\ SurdGe(ret.val, q) => RLe(RInt(0), Score(u, v, w, q))
                /\ SurdLe(ret.val, q) => RLe(Score(u, v, w, q), RInt(0))

\* two individuals with different founder orders: under <<1,2,...>> the
\* cell (1,2) is a sibling pair, under <<8,1,2,...>> it is not; u = 1,
\* v = 1, w = 2, and the root of 4r^2 + 8r - 3 = 0 lies between 1/4 and 1/2
C3_Witness ==
    /\ EstPre
    /\ args.cross_info.cols = << <<1, 2, 3, 4, 5, 6, 7, 8>>, <<8, 1, 2, 3, 4, 5, 6, 7>> >>
    /\ args.gamma[2] = 1 /\ args.gamma[64 + 2] = 1
    /\ MassU = 1 /\ MassV = 1 /\ MassW = 2
    /\ ret.kind = "value"
    /\ SurdGe(ret.val, Frac(1, 4))
    /\ SurdLe(ret.val, RHalf)

----------------------------------------------------------------------------
\* C8 as stated: when u = v = w > 0 the value returned is close to 0.5
\* (here: within 1/100 of it).
C8_EqualMassesNearHalf ==
    (EstPre /\ MassU = MassV /\ MassV = MassW /\ MassU > 0)
    => /\ ret.kind = "value"
       /\ SurdGe(ret.val, Frac(49, 100))
       /\ SurdLe(ret.val, Frac(51, 100))

\* C8 amended: when u = v = w > 0 the value returned is 1/4.
C8_EqualMassesQuarter ==
    (EstPre /\ MassU = MassV /\ MassV = MassW /\ MassU > 0)
    => /\ ret.kind = "value"
       /\ SurdGe(ret.val, Frac(1, 4))
       /\ SurdLe(ret.val, Frac(1, 4))

\* two individuals, one unit of mass in each class: (7 - sqrt(81)) / (-8)
C8_Witness ==
    /\ EstPre
    /\ Len(args.cross_info.cols) = 2
    /\ MassU = 1 /\ MassV = 1 /\ MassW = 1
    /\ ret.kind = "value"
    /\ ret.val = Surd(7, 81, -8)

----------------------------------------------------------------------------
====
